---- MODULE Spec2Model ----
(***************************************************************************)
(* Reminder scheduling and notification dispatch of second_brain:          *)
(*   - the reminder evaluator lambda (event-triggers/reminder_evaluator),  *)
(*   - the notification sender lambda (event-triggers/notification_sender),*)
(*   - the trigger calculator of the reminders API (api-gateway/reminders).*)
(* The relational store is the shared state: every SQL statement is one    *)
(* atomic step, and the lambdas' positions between statements are part of   *)
(* the state, so overlapping invocations interleave statement by statement. *)
(*                                                                         *)
(* Instants are whole clock slots counted from 0 (UTC); a day has DayLen   *)
(* slots and the time-of-day of instant t is t % DayLen. A nullable column *)
(* (Option<T>) is a sequence of length 0 (NULL / None) or 1 (Some).        *)
(***************************************************************************)
EXTENDS Integers, Sequences, FiniteSets, TLC

\* ---------------------------------------------------------------- bounds
MaxNow == 4            \* the clock runs over 0..MaxNow
DayLen == 3            \* clock slots per day
MaxNotifs == 2         \* rows the notifications table can take
MaxDeliveries == 2     \* deliveries of one hand-off message (at-least-once)
QLimit == 2            \* largest LIMIT drawn when the query is checked on its own
MaxCreated == 1
MaxRuns == 2        \* reminders the API creates when it is checked with the tick

\* ------------------------------------------------------ program constants
BatchLimit == 100      \* get_pending_reminders(&state.db_pool, 100)
DefaultPriority == 2   \* request.priority.unwrap_or(2)

\* ------------------------------------------------------------- identities
Users == {"u1", "u2"}
RIds == {1, 2}
EvalProcs == {"e1", "e2"}
SendProcs == {"s1", "s2"}

VARIABLES
    now,            \* NOW() / Utc::now(): the current instant
    reminders,      \* table reminders: RIds -> row
    prefs,          \* table user_notification_preferences: Users -> Option<row>
    contact,        \* users LEFT JOIN user_profiles: Users -> Option<row>
    env,            \* AppState of both lambdas: topic arn / webhook url configured
    notifications,  \* table notifications: sequence of rows, id = index
    published,      \* notification ids with a hand-off message published to the topic
    delivered,      \* id -> number of deliveries of its hand-off message so far
    outbox,         \* id -> number of times an external channel sender was invoked for it
    eval,           \* reminder evaluator invocations: EvalProcs -> position and locals
    send,           \* notification sender invocations: SendProcs -> position and locals
    agent,          \* Event invocations of the agent function, in the order they were made
    disp            \* the briefing dispatcher invocation: position and locals

vars == <<now, reminders, prefs, contact, env, notifications, published,
          delivered, outbox, eval, send, agent, disp>>

\* ---------------------------------------------------------------- options
None == << >>
Some(x) == <<x>>
IsSome(o) == Len(o) = 1
Get(o) == o[1]

Min(a, b) == IF a <= b THEN a ELSE b
TimeOfDay(t) == t % DayLen

\* ------------------------------------------------------ trigger calculator
\* trigger_config is the one time field its trigger type reads:
\*   kind "missing" (field absent), "malformed" (present, does not parse), "ok" (value v)
CfgMissing == [kind |-> "missing", v |-> 0]
CfgMalformed == [kind |-> "malformed", v |-> 0]
CfgOk(v) == [kind |-> "ok", v |-> v]
DefaultTime == 1       \* .unwrap_or("09:00"), on the DayLen-slot day

\* calculate_next_trigger, were an unreadable time field to fall back to the current
\* instant for every trigger type that has one
calculate_next_trigger_or_now(trigger_type, cfg, t) ==
    IF trigger_type \in {"time", "recurring", "event"}
    THEN IF cfg.kind = "ok"
         THEN Some(IF trigger_type = "recurring"
                   THEN (t \div DayLen) * DayLen + cfg.v ELSE cfg.v)
         ELSE Some(t)
    ELSE None

\* calculate_next_trigger, were a location trigger to fire as soon as it is created
calculate_next_trigger_location_now(trigger_type, cfg, t) ==
    CASE trigger_type \in {"time", "event"} ->
            IF cfg.kind = "ok" THEN Some(cfg.v) ELSE None
      [] trigger_type = "recurring" ->
            LET time == IF cfg.kind = "missing" THEN CfgOk(DefaultTime) ELSE cfg
            IN  IF time.kind = "ok"
                THEN Some((t \div DayLen) * DayLen + time.v)
                ELSE None
      [] trigger_type = "location" -> Some(t)
      [] OTHER -> None

\* reminders.rs calculate_next_trigger, evaluated at instant t (Utc::now())
calculate_next_trigger(trigger_type, cfg, t) ==
    CASE trigger_type = "time" ->
            IF cfg.kind = "ok" THEN Some(cfg.v) ELSE None
      [] trigger_type = "recurring" ->
            LET time == IF cfg.kind = "missing" THEN CfgOk(DefaultTime) ELSE cfg
            IN  IF time.kind = "ok"
                THEN Some((t \div DayLen) * DayLen + time.v)
                ELSE None
      [] trigger_type = "event" ->
            IF cfg.kind = "ok" THEN Some(cfg.v) ELSE None
      [] trigger_type = "location" -> None
      [] OTHER -> None

\* The SQL function calculate_next_trigger(trigger_type, trigger_config, NOW()) that
\* update_reminder_status calls for a recurring reminder: the next occurrence of the
\* daily time-of-day strictly after t.
db_calculate_next_trigger(cfg, t) ==
    LET time == IF cfg.kind = "ok" THEN cfg.v ELSE DefaultTime
        ahead == (time - TimeOfDay(t) + DayLen) % DayLen
    IN  Some(t + (IF ahead = 0 THEN DayLen ELSE ahead))

\* ------------------------------------------------------------- store rows
\* INSERT INTO reminders of the create handler, at instant t
NewReminder(user, trigger_type, cfg, priority, t) ==
    [user_id |-> user, trigger_type |-> trigger_type, trigger_config |-> cfg,
     priority |-> priority, status |-> "active",
     next_trigger_at |-> calculate_next_trigger(trigger_type, cfg, t),
     last_triggered_at |-> None, snooze_until |-> None]

\* ------------------------------------------------------------ reminders API
\* handler of reminders.rs for an authenticated user; each route is one SQL statement.
\* Titles, descriptions and related ids are left out: nothing reads them here.
\* POST /reminders: a trigger_type outside the four valid ones is answered 400 and
\* writes nothing.
CreateReminder(user, trigger_type, cfg, priority) ==
    /\ Len(reminders) < MaxCreated
    /\ trigger_type \in {"time", "location", "event", "recurring"}
    /\ reminders' = Append(reminders,
                           NewReminder(user, trigger_type, cfg,
                                       IF IsSome(priority) THEN Get(priority)
                                       ELSE DefaultPriority, now))
    /\ UNCHANGED <<now, prefs, contact, env, agent, disp, notifications, published, delivered,
                   outbox, eval, send>>

\* PUT /reminders/{id}: UPDATE reminders SET <the fields given> WHERE id = $1 AND
\* user_id = $2. A status outside the four valid ones is answered 400, a request with
\* no field 400, a row of another user 404: none of them writes.
UpdateReminder(user, id, trigger_config, priority, status) ==
    /\ id \in DOMAIN reminders
    /\ reminders[id].user_id = user
    /\ IsSome(status) => Get(status) \in {"active", "paused", "cancelled", "completed"}
    /\ IsSome(trigger_config) \/ IsSome(priority) \/ IsSome(status)
    /\ reminders' = [reminders EXCEPT
          ![id].trigger_config = IF IsSome(trigger_config) THEN Get(trigger_config) ELSE @,
          ![id].priority = IF IsSome(priority) THEN Get(priority) ELSE @,
          ![id].status = IF IsSome(status) THEN Get(status) ELSE @]
    /\ UNCHANGED <<now, prefs, contact, env, agent, disp, notifications, published, delivered,
                   outbox, eval, send>>

\* POST /reminders/{id}/snooze: UPDATE reminders SET snooze_until = $3
SnoozeReminder(user, id, snooze_until) ==
    /\ id \in DOMAIN reminders
    /\ reminders[id].user_id = user
    /\ reminders' = [reminders EXCEPT ![id].snooze_until = Some(snooze_until)]
    /\ UNCHANGED <<now, prefs, contact, env, agent, disp, notifications, published, delivered,
                   outbox, eval, send>>

\* DELETE /reminders/{id}: UPDATE reminders SET status = 'cancelled'
DeleteReminder(user, id) ==
    /\ id \in DOMAIN reminders
    /\ reminders[id].user_id = user
    /\ reminders' = [reminders EXCEPT ![id].status = "cancelled"]
    /\ UNCHANGED <<now, prefs, contact, env, agent, disp, notifications, published, delivered,
                   outbox, eval, send>>

\* --------------------------------------------------- delivery policy resolver
PrefRow(push, email, discord, quiet, qstart, qend, tz) ==
    [push_enabled |-> push, email_enabled |-> email, discord_enabled |-> discord,
     quiet_hours_enabled |-> quiet, quiet_hours_start |-> qstart,
     quiet_hours_end |-> qend, timezone |-> tz]

\* the defaults, were the handler to enable every channel
AllChannelsPrefs == PrefRow(TRUE, TRUE, TRUE, FALSE, None, None, 0)

\* the UserPreferences the handler builds when the user has no preference row
DefaultPrefs == PrefRow(TRUE, TRUE, FALSE, FALSE, None, None, 0)

\* is_in_quiet_hours, were the end of the window to count as inside it
is_in_quiet_hours_inclusive(p, t) ==
    IF ~p.quiet_hours_enabled THEN FALSE
    ELSE IF ~(IsSome(p.quiet_hours_start) /\ IsSome(p.quiet_hours_end)) THEN FALSE
    ELSE LET start == Get(p.quiet_hours_start)
             end == Get(p.quiet_hours_end)
             tod == TimeOfDay(t)
         IN  IF start <= end
             THEN tod >= start /\ tod <= end
             ELSE tod >= start \/ tod <= end

\* is_in_quiet_hours at instant t: `now` is Utc::now().time()
is_in_quiet_hours(p, t) ==
    IF ~p.quiet_hours_enabled THEN FALSE
    ELSE IF ~(IsSome(p.quiet_hours_start) /\ IsSome(p.quiet_hours_end)) THEN FALSE
    ELSE LET start == Get(p.quiet_hours_start)
             end == Get(p.quiet_hours_end)
             tod == TimeOfDay(t)
         IN  IF start <= end
             THEN tod >= start /\ tod < end
             ELSE tod >= start \/ tod < end

\* get_preferred_channel, were push to be tried before discord
get_preferred_channel_push_first(p) ==
    IF p.push_enabled THEN "push"
    ELSE IF p.discord_enabled THEN "discord"
    ELSE IF p.email_enabled THEN "email"
    ELSE "push"

\* get_preferred_channel, were it to name no channel when none is enabled
get_preferred_channel_or_none(p) ==
    IF p.discord_enabled THEN "discord"
    ELSE IF p.push_enabled THEN "push"
    ELSE IF p.email_enabled THEN "email"
    ELSE "none"

\* get_preferred_channel: discord, then push, then email, else push
get_preferred_channel(p) ==
    IF p.discord_enabled THEN "discord"
    ELSE IF p.push_enabled THEN "push"
    ELSE IF p.email_enabled THEN "email"
    ELSE "push"

\* ------------------------------------------------------ eligibility evaluator
\* the WHERE clause, were it to leave out the snooze_until condition
DueRowIgnoringSnooze(row, t) ==
    /\ row.status = "active"
    /\ IsSome(row.next_trigger_at) /\ Get(row.next_trigger_at) <= t

\* WHERE status = 'active' AND next_trigger_at <= NOW()
\*   AND (snooze_until IS NULL OR snooze_until <= NOW())
DueRow(row, t) ==
    /\ row.status = "active"
    /\ IsSome(row.next_trigger_at) /\ Get(row.next_trigger_at) <= t
    /\ (~IsSome(row.snooze_until) \/ Get(row.snooze_until) <= t)

\* ORDER BY priority DESC, next_trigger_at ASC: a precedes-or-ties b
OrderedPair(a, b) ==
    \/ a.priority > b.priority
    \/ a.priority = b.priority /\ Get(a.next_trigger_at) <= Get(b.next_trigger_at)

\* the PendingReminder the query returns for row id (due_at: the occurrence selected)
Pending(rs, id) ==
    [id |-> id, user_id |-> rs[id].user_id, trigger_type |-> rs[id].trigger_type,
     priority |-> rs[id].priority, due_at |-> Get(rs[id].next_trigger_at)]

\* every answer the query may give on table rs at instant t: the due rows in an order
\* the ORDER BY allows (rows that tie come in any order), cut to the first `limit`
get_pending_reminders(rs, t, limit) ==
    LET due == {id \in DOMAIN rs : DueRow(rs[id], t)}
        n == Cardinality(due)
        orders == {o \in [1..n -> due] :
                     /\ \A i, j \in 1..n : i # j => o[i] # o[j]
                     /\ \A i, j \in 1..n : i < j => OrderedPair(rs[o[i]], rs[o[j]])}
    IN  {[k \in 1..Min(limit, n) |-> Pending(rs, o[k])] : o \in orders}

\* --------------------------------------------------------- notification rows
\* INSERT INTO notifications (...) RETURNING id: status defaults to 'pending'.
\* occurrence is history, not a column: the next_trigger_at the reminder was selected at.
queue_notification(ns, user, reminder, channel) ==
    Append(ns, [user_id |-> user, channel |-> channel, reminder_id |-> reminder.id,
                status |-> "pending", sent_at |-> None, delivery_info |-> None,
                occurrence |-> reminder.due_at])

\* ---------------------------------------------------- recurrence rescheduler
\* update_reminder_status, were the one-shot branch to forget SET status = 'triggered'
update_keeping_status(rs, id, trigger_type, t) ==
    IF trigger_type = "recurring"
    THEN [rs EXCEPT ![id].last_triggered_at = Some(t),
                    ![id].next_trigger_at =
                        db_calculate_next_trigger(rs[id].trigger_config, t)]
    ELSE [rs EXCEPT ![id].last_triggered_at = Some(t)]

\* update_reminder_status, were it to take the one-shot branch for every trigger type
update_always_triggered(rs, id, trigger_type, t) ==
    [rs EXCEPT ![id].status = "triggered", ![id].last_triggered_at = Some(t)]

\* update_reminder_status, were the recurring branch to use the create handler's
\* calculate_next_trigger (today's occurrence) for next_trigger_at
update_same_day(rs, id, trigger_type, t) ==
    IF trigger_type = "recurring"
    THEN [rs EXCEPT ![id].last_triggered_at = Some(t),
                    ![id].next_trigger_at =
                        calculate_next_trigger("recurring", rs[id].trigger_config, t)]
    ELSE [rs EXCEPT ![id].status = "triggered",
                    ![id].last_triggered_at = Some(t)]

\* update_reminder_status, were its UPDATE to reset snooze_until as well
update_clearing_snooze(rs, id, trigger_type, t) ==
    IF trigger_type = "recurring"
    THEN [rs EXCEPT ![id].last_triggered_at = Some(t),
                    ![id].snooze_until = None,
                    ![id].next_trigger_at =
                        db_calculate_next_trigger(rs[id].trigger_config, t)]
    ELSE [rs EXCEPT ![id].status = "triggered",
                    ![id].snooze_until = None,
                    ![id].last_triggered_at = Some(t)]

\* update_reminder_status: the UPDATE it runs on table rs at instant t
update_reminder_status(rs, id, trigger_type, t) ==
    IF trigger_type = "recurring"
    THEN [rs EXCEPT ![id].last_triggered_at = Some(t),
                    ![id].next_trigger_at =
                        db_calculate_next_trigger(rs[id].trigger_config, t)]
    ELSE [rs EXCEPT ![id].status = "triggered",
                    ![id].last_triggered_at = Some(t)]

\* ------------------------------------------------------- reminder evaluator
\* One invocation of the handler. pc: "idle" (not running), "queue" (about to load the
\* preferences of batch[i] and queue its notification), "update" (about to run
\* update_reminder_status for batch[i]), "return" (the loop is over, or the query
\* failed: about to return). log is the last message the loop logged and the id of the
\* reminder it was about; result is "ok" for Ok(response), "error" for Err.
NoLog == [msg |-> "none", id |-> 0]
EvalIdle ==
    [pc |-> "idle", limit |-> 0, batch |-> << >>, i |-> 0, notifications_queued |-> 0,
     reminders_rescheduled |-> 0, errors |-> 0, log |-> NoLog, result |-> "none"]

\* the response the handler builds after the loop
EvaluatorResponse(e) ==
    [reminders_evaluated |-> Len(e.batch),
     notifications_queued |-> e.notifications_queued,
     reminders_rescheduled |-> e.reminders_rescheduled, errors |-> e.errors]

\* the end of one pass of `for reminder in &reminders`: the next reminder, or the end
LoopNext(e) ==
    IF e.i < Len(e.batch)
    THEN [e EXCEPT !.pc = "queue", !.i = e.i + 1]
    ELSE [e EXCEPT !.pc = "return", !.result = "ok"]

Logged(e, msg, id) == [e EXCEPT !.log = [msg |-> msg, id |-> id]]

\* handler, up to the loop: get_pending_reminders(pool, limit)?
TickStart(p, limit) ==
    /\ eval[p].pc = "idle"
    /\ \/ \E batch \in get_pending_reminders(reminders, now, limit) :
            eval' = [eval EXCEPT ![p] =
                        LoopNext([EvalIdle EXCEPT !.limit = limit, !.batch = batch])]
       \/ eval' = [eval EXCEPT ![p] =
                   [EvalIdle EXCEPT !.limit = limit, !.pc = "return", !.result = "error"]]
    /\ UNCHANGED <<now, reminders, prefs, contact, env, agent, disp, notifications, published,
                   delivered, outbox, send>>

\* the quiet-hours branch of the loop body: info!(...); continue
SkipQuiet(e, id) ==
    LoopNext(Logged(e, "Skipping notification during quiet hours", id))

\* the Ok(notification_id) arm, were a failed publish to count as an error and skip
\* the rest of the loop body like a failed insert
AfterQueuePublishChecked(e, id, publish_ok) ==
    IF publish_ok
    THEN Logged([e EXCEPT !.pc = "update",
                          !.notifications_queued = e.notifications_queued + 1],
                "queued", id)
    ELSE LoopNext(Logged([e EXCEPT !.errors = e.errors + 1,
                                   !.notifications_queued = e.notifications_queued + 1],
                         "Failed to publish to SNS", id))

\* the Ok(notification_id) arm of the loop body: notifications_queued += 1, and a
\* warn! when publish_to_sns returned Err; either way on to update_reminder_status
AfterQueue(e, id, publish_ok) ==
    Logged([e EXCEPT !.pc = "update",
                     !.notifications_queued = e.notifications_queued + 1],
           IF publish_ok THEN "queued" ELSE "Failed to publish to SNS", id)

\* an Err arm of the first half of the loop body, were it to end the handler with the
\* error instead of going on with the next reminder
FailedAborts(e, msg, id) ==
    Logged([e EXCEPT !.errors = e.errors + 1, !.pc = "return", !.result = "error"],
           msg, id)

\* an Err arm of the first half of the loop body, were it to lack its `continue`
FailedFallsThrough(e, msg, id) ==
    Logged([e EXCEPT !.errors = e.errors + 1, !.pc = "update"], msg, id)

\* an Err arm of the first half of the loop body: error!(...); errors += 1; continue
Failed(e, msg, id) ==
    LoopNext(Logged([e EXCEPT !.errors = e.errors + 1], msg, id))

\* the preferences the loop works with: the user's row, or the handler's defaults
PrefsOf(user) == IF IsSome(prefs[user]) THEN Get(prefs[user]) ELSE DefaultPrefs

\* handler, first half of the loop body: get_user_preferences, is_in_quiet_hours,
\* get_preferred_channel, queue_notification, publish_to_sns
TickQueue(p) ==
    LET e == eval[p]
        r == e.batch[e.i]
    IN
    /\ e.pc = "queue"
    /\ \/ \* Err(e) from get_user_preferences
          /\ eval' = [eval EXCEPT ![p] = Failed(e, "Failed to get user preferences", r.id)]
          /\ UNCHANGED <<notifications, published>>
       \/ IF is_in_quiet_hours(PrefsOf(r.user_id), now)
          THEN /\ eval' = [eval EXCEPT ![p] = SkipQuiet(e, r.id)]
               /\ UNCHANGED <<notifications, published>>
          ELSE \/ \* Ok(notification_id) from queue_notification
                  /\ Len(notifications) < MaxNotifs
                  /\ notifications' = queue_notification(
                         notifications, r.user_id, r,
                         get_preferred_channel(PrefsOf(r.user_id)))
                  /\ \E publish_ok \in BOOLEAN :
                        \* publish_to_sns: Ok without a message when no topic is set
                        /\ ~env.topic => publish_ok
                        /\ published' = IF env.topic /\ publish_ok
                                        THEN published \cup {Len(notifications')}
                                        ELSE published
                        /\ eval' = [eval EXCEPT ![p] = AfterQueue(e, r.id, publish_ok)]
               \/ \* Err(e) from queue_notification
                  /\ eval' = [eval EXCEPT ![p] = Failed(e, "Failed to queue notification", r.id)]
                  /\ UNCHANGED <<notifications, published>>
    /\ UNCHANGED <<now, reminders, prefs, contact, env, agent, disp, delivered, outbox, send>>

\* handler, second half of the loop body: update_reminder_status
TickUpdate(p) ==
    LET e == eval[p]
        r == e.batch[e.i]
    IN
    /\ e.pc = "update"
    /\ \/ /\ reminders' = update_reminder_status(reminders, r.id, r.trigger_type, now)
          /\ eval' = [eval EXCEPT ![p] =
                LoopNext(Logged(
                    [e EXCEPT !.reminders_rescheduled =
                        IF r.trigger_type = "recurring"
                        THEN e.reminders_rescheduled + 1 ELSE e.reminders_rescheduled],
                    "updated", r.id))]
       \/ /\ eval' = [eval EXCEPT ![p] =
                LoopNext(Logged([e EXCEPT !.errors = e.errors + 1],
                                "Failed to update reminder status", r.id))]
          /\ UNCHANGED reminders
    /\ UNCHANGED <<now, prefs, contact, env, agent, disp, notifications, published, delivered,
                   outbox, send>>

\* handler, after the loop: Ok(response), or the Err of the query; the invocation ends
TickReturn(p) ==
    /\ eval[p].pc = "return"
    /\ eval' = [eval EXCEPT ![p] = EvalIdle]
    /\ UNCHANGED <<now, reminders, prefs, contact, env, agent, disp, notifications, published,
                   delivered, outbox, send>>

\* the wall clock moves on
Advance ==
    /\ now < MaxNow
    /\ now' = now + 1
    /\ UNCHANGED <<reminders, prefs, contact, env, agent, disp, notifications, published,
                   delivered, outbox, eval, send>>

\* ------------------------------------------------------- channel dispatchers
ContactRow(email, discord_user_id, push_token) ==
    [email |-> email, discord_user_id |-> discord_user_id, push_token |-> push_token]

\* what one call of a channel sender can come to; called tells whether the external
\* service was invoked at all
Outcome(ok, info, called) == [ok |-> ok, info |-> info, called |-> called]

\* send_email: the SES call succeeds with its message id or fails
send_email == {Outcome(TRUE, "ses_message_id", TRUE),
               Outcome(FALSE, "Failed to send email", TRUE)}

\* send_discord: needs the webhook url; a non-2xx answer or a transport error fails
send_discord(webhook) ==
    IF ~webhook
    THEN {Outcome(FALSE, "Discord webhook URL not configured", FALSE)}
    ELSE {Outcome(TRUE, "discord_sent", TRUE),
          Outcome(FALSE, "Discord webhook failed", TRUE)}

\* send_push: the stub
send_push == {Outcome(TRUE, "push_pending", TRUE)}

\* send_notification(state, notification, contact): the set of possible results
send_notification(webhook, channel, c) ==
    CASE channel = "email" ->
            IF ~c.email THEN {Outcome(FALSE, "User has no email address", FALSE)}
            ELSE send_email
      [] channel = "discord" ->
            IF ~c.discord_user_id THEN {Outcome(FALSE, "User has no Discord ID", FALSE)}
            ELSE send_discord(webhook)
      [] channel = "push" ->
            IF ~c.push_token THEN {Outcome(FALSE, "User has no push token", FALSE)}
            ELSE send_push
      [] OTHER -> {Outcome(FALSE, "Unknown channel", FALSE)}

\* get_notification, were the SELECT to leave out AND status = 'pending'
get_notification_any_status(ns, id) ==
    IF id \in 1..Len(ns) THEN Some(ns[id]) ELSE None

\* get_notification: SELECT ... WHERE id = $1 AND status = 'pending', fetch_optional
get_notification(ns, id) ==
    IF id \in 1..Len(ns) /\ ns[id].status = "pending" THEN Some(ns[id]) ELSE None

\* update_notification_status, were a failure to move the row to the email channel
update_notification_status_rechannel(ns, id, status, delivery_info, t) ==
    [ns EXCEPT ![id].status = status,
               ![id].channel = IF status = "failed" THEN "email" ELSE ns[id].channel,
               ![id].sent_at = IF status = "sent" THEN Some(t) ELSE ns[id].sent_at,
               ![id].delivery_info = Some(delivery_info)]

\* update_notification_status: the UPDATE it runs on table ns at instant t
update_notification_status(ns, id, status, delivery_info, t) ==
    [ns EXCEPT ![id].status = status,
               ![id].sent_at = IF status = "sent" THEN Some(t) ELSE ns[id].sent_at,
               ![id].delivery_info = Some(delivery_info)]

\* ------------------------------------------------------ notification sender
\* One invocation of the handler on an event of one record. pc: "idle" (not running),
\* "fetched" (get_notification returned the row, about to load the contact and send),
\* "return" (about to return its response). log is the message it logged for the record;
\* notifications_sent and errors are the counts of the response.
SendIdle ==
    [pc |-> "idle", nid |-> 0, user_id |-> "", channel |-> "", log |-> "none",
     notifications_sent |-> 0, errors |-> 0]

SenderResponse(m, msg, sent, errors) ==
    [m EXCEPT !.pc = "return", !.log = msg, !.notifications_sent = sent,
              !.errors = errors]

\* the topic delivers the hand-off message of notification n (again); handler, up to
\* get_notification: SELECT ... WHERE id = $1 AND status = 'pending'
SenderFetch(s, n) ==
    /\ send[s].pc = "idle"
    /\ n \in published
    /\ delivered[n] < MaxDeliveries
    /\ delivered' = [delivered EXCEPT ![n] = delivered[n] + 1]
    /\ \/ send' = [send EXCEPT ![s] = SenderResponse([SendIdle EXCEPT !.nid = n], "Failed to fetch notification", 0, 1)]
       \/ IF IsSome(get_notification(notifications, n))
          THEN send' = [send EXCEPT ![s] =
                    [SendIdle EXCEPT !.pc = "fetched", !.nid = n,
                        !.user_id = Get(get_notification(notifications, n)).user_id,
                        !.channel = Get(get_notification(notifications, n)).channel]]
          ELSE send' = [send EXCEPT ![s] =
                    SenderResponse([SendIdle EXCEPT !.nid = n],
                                   "Notification not found or already sent", 0, 0)]
    /\ UNCHANGED <<now, reminders, prefs, contact, env, agent, disp, notifications, published,
                   outbox, eval>>

\* handler, from get_user_contact on: send_notification, then update_notification_status,
\* whose own failure is dropped by .ok(). The external call and the UPDATE are one step:
\* nothing but the UPDATE writes the row, so a fetch by another invocation between the
\* two reads what it would read before the call.
SenderDispatch(s) ==
    LET m == send[s]
        n == m.nid
        finalize(status, info) ==
            \/ notifications' =
                   update_notification_status(notifications, n, status, info, now)
            \/ UNCHANGED notifications
    IN
    /\ m.pc = "fetched"
    /\ \/ \* Err(e) from get_user_contact
          /\ send' = [send EXCEPT ![s] = SenderResponse(m, "Failed to fetch user contact", 0, 1)]
          /\ UNCHANGED <<notifications, outbox>>
       \/ \* Ok(None)
          /\ ~IsSome(contact[m.user_id])
          /\ finalize("failed", "User not found")
          /\ send' = [send EXCEPT ![s] = SenderResponse(m, "User not found", 0, 1)]
          /\ UNCHANGED outbox
       \/ \* Ok(Some(c))
          /\ IsSome(contact[m.user_id])
          /\ \E o \in send_notification(env.webhook, m.channel, Get(contact[m.user_id])) :
                /\ outbox' = IF o.called THEN [outbox EXCEPT ![n] = outbox[n] + 1]
                             ELSE outbox
                /\ IF o.ok
                   THEN /\ finalize("sent", o.info)
                        /\ send' = [send EXCEPT ![s] =
                              SenderResponse(m, "Notification sent successfully", 1, 0)]
                   ELSE /\ finalize("failed", o.info)
                        /\ send' = [send EXCEPT ![s] =
                              SenderResponse(m, "Failed to send notification", 0, 1)]
    /\ UNCHANGED <<now, reminders, prefs, contact, env, agent, disp, published, delivered, eval>>

\* handler, after the loop: Ok(response); the invocation ends
SenderReturn(s) ==
    /\ send[s].pc = "return"
    /\ send' = [send EXCEPT ![s] = SendIdle]
    /\ UNCHANGED <<now, reminders, prefs, contact, env, agent, disp, notifications, published,
                   delivered, outbox, eval>>

\* ------------------------------------------------------------ initial state
\* users and their rows: in the first deployment u1 keeps quiet hours over midnight in a
\* timezone ahead of UTC and u2 has no preference row; in the second u1 takes email
\* only, u2 keeps quiet hours within the day and has no users row any more, and no
\* webhook is configured
\* ------------------------------------------------------ briefing dispatcher
\* user_notification_preferences rows as the dispatcher reads them: the channel flags and
\* the briefing columns; times are hours of the DayLen-hour day, timezone an offset in
\* hours
BriefingPrefRow(push, email, discord, morning, morning_time, evening, evening_time, tz) ==
    [push_enabled |-> push, email_enabled |-> email, discord_enabled |-> discord,
     quiet_hours_enabled |-> FALSE, quiet_hours_start |-> None, quiet_hours_end |-> None,
     timezone |-> tz,
     morning_briefing_enabled |-> morning, morning_briefing_time |-> morning_time,
     evening_briefing_enabled |-> evening, evening_briefing_time |-> evening_time]

DefaultMorningTime == 1     \* COALESCE(unp.morning_briefing_time, '07:00'::time)
DefaultEveningTime == 2     \* COALESCE(unp.evening_briefing_time, '18:00'::time)
DefaultZoneOffset == 0 - 1  \* COALESCE(unp.timezone, 'America/New_York'): west of UTC
UserLimit == 100            \* LIMIT 100

\* the SQL operator %: the result takes the sign of the dividend
PgMod(a, m) == IF a >= 0 THEN a % m ELSE 0 - ((0 - a) % m)

\* the WHERE clause of get_users_for_briefing for user u. EXTRACT(TIMEZONE_HOUR FROM
\* NOW() AT TIME ZONE tz) is taken to be the zone's offset from UTC in hours.
BriefingDue(ps, u, briefing_type, current_hour_utc) ==
    LET row == ps[u]
        tz == IF IsSome(row) THEN Get(row).timezone ELSE DefaultZoneOffset
        local == PgMod(current_hour_utc + tz, DayLen)
    IN  CASE briefing_type = "morning" ->
                /\ (IF IsSome(row) THEN Get(row).morning_briefing_enabled ELSE TRUE)
                /\ (IF IsSome(row) THEN Get(row).morning_briefing_time
                    ELSE DefaultMorningTime) = local
          [] briefing_type = "evening" ->
                /\ (IF IsSome(row) THEN Get(row).evening_briefing_enabled ELSE FALSE)
                /\ (IF IsSome(row) THEN Get(row).evening_briefing_time
                    ELSE DefaultEveningTime) = local
          [] OTHER -> FALSE

\* the BriefingUser the query returns for user u
BriefingUser(ps, cs, u) ==
    [user_id |-> u, email |-> Get(cs[u]).email,
     timezone |-> IF IsSome(ps[u]) THEN Get(ps[u]).timezone ELSE DefaultZoneOffset,
     preferred_channel |-> IF IsSome(ps[u]) THEN get_preferred_channel(Get(ps[u]))
                           ELSE "push"]

\* every answer get_users_for_briefing may give: the users (rows of cs) that are due,
\* in any order (the query has no ORDER BY), cut to the first `limit`
get_users_for_briefing(ps, cs, briefing_type, current_hour_utc, limit) ==
    LET due == {u \in DOMAIN cs :
                   IsSome(cs[u]) /\ BriefingDue(ps, u, briefing_type, current_hour_utc)}
        n == Cardinality(due)
        orders == {o \in [1..n -> due] : \A i, j \in 1..n : i # j => o[i] # o[j]}
    IN  {[k \in 1..Min(limit, n) |-> BriefingUser(ps, cs, o[k])] : o \in orders}

\* the AgentRequest of trigger_briefing; at is history, not a field: the hour it was
\* sent in
AgentRequest(user, briefing_type, t) ==
    [message |-> CASE briefing_type = "morning" -> "Generate my morning briefing"
                   [] briefing_type = "evening" -> "Generate my evening summary"
                   [] OTHER -> "Generate my briefing",
     user_id |-> user.user_id, intent |-> "briefing", source |-> "scheduler",
     briefing_type |-> briefing_type, at |-> t]

\* One invocation of the dispatcher at a time. pc: "idle", "trigger" (about to call
\* trigger_briefing for users[i]), "return". runs counts the invocations so far.
DispIdle ==
    [pc |-> "idle", briefing_type |-> "", users |-> << >>, i |-> 0,
     briefings_triggered |-> 0, errors |-> 0, result |-> "none", runs |-> 0]

DispatcherResponse(d) ==
    [users_processed |-> Len(d.users), briefings_triggered |-> d.briefings_triggered,
     errors |-> d.errors]

\* the for loop goes on with the next user, or is over
DispLoopNext(d) ==
    IF d.i < Len(d.users)
    THEN [d EXCEPT !.pc = "trigger", !.i = d.i + 1]
    ELSE [d EXCEPT !.pc = "return", !.result = "ok"]

\* the schedule invokes the handler with an event; handler, up to the loop: the event's
\* briefing_type or "morning", the current UTC hour, then the query (`?`)
DispatchStart(briefing_type) ==
    LET type == IF IsSome(briefing_type) THEN Get(briefing_type) ELSE "morning"
        fresh == [DispIdle EXCEPT !.briefing_type = type, !.runs = disp.runs + 1]
    IN
    /\ disp.pc = "idle"
    /\ disp.runs < MaxRuns
    /\ \/ \E users \in get_users_for_briefing(prefs, contact, type, TimeOfDay(now),
                                              UserLimit) :
            disp' = DispLoopNext([fresh EXCEPT !.users = users])
       \/ disp' = [fresh EXCEPT !.pc = "return", !.result = "error"]
    /\ UNCHANGED <<now, reminders, prefs, contact, env, notifications, published,
                   delivered, outbox, eval, send, agent>>

\* one turn of the loop: trigger_briefing invokes the agent function with
\* InvocationType::Event, or fails
DispatchTrigger ==
    /\ disp.pc = "trigger"
    /\ \/ /\ agent' = Append(agent, AgentRequest(disp.users[disp.i],
                                                 disp.briefing_type, now))
          /\ disp' = DispLoopNext([disp EXCEPT
                         !.briefings_triggered = disp.briefings_triggered + 1])
       \/ /\ UNCHANGED agent
          /\ disp' = DispLoopNext([disp EXCEPT !.errors = disp.errors + 1])
    /\ UNCHANGED <<now, reminders, prefs, contact, env, notifications, published,
                   delivered, outbox, eval, send>>

\* the handler returns Ok(response) or the query's Err
DispatchReturn ==
    /\ disp.pc = "return"
    /\ disp' = [DispIdle EXCEPT !.runs = disp.runs]
    /\ UNCHANGED <<now, reminders, prefs, contact, env, notifications, published,
                   delivered, outbox, eval, send, agent>>

QuietStart == DayLen - 1

Home ==
    [prefs |-> [u \in Users |->
                  IF u = "u1"
                  THEN Some(PrefRow(TRUE, TRUE, TRUE, TRUE,
                                    Some(QuietStart), Some(1), 2))
                  ELSE None],
     contact |-> [u \in Users |->
                  IF u = "u1" THEN Some(ContactRow(TRUE, TRUE, FALSE))
                  ELSE Some(ContactRow(TRUE, FALSE, TRUE))],
     env |-> [topic |-> TRUE, webhook |-> TRUE]]

Bare ==
    [prefs |-> [u \in Users |->
                  IF u = "u1"
                  THEN Some(PrefRow(FALSE, TRUE, FALSE, FALSE, None, None, 0))
                  ELSE Some(PrefRow(TRUE, FALSE, FALSE, TRUE,
                                    Some(1), Some(QuietStart), 0))],
     contact |-> [u \in Users |->
                  IF u = "u1" THEN Some(ContactRow(TRUE, FALSE, FALSE))
                  ELSE None],
     env |-> [topic |-> TRUE, webhook |-> FALSE]]

\* the reminders the create handler stored at instant 0
OneShotAndDaily ==
    <<NewReminder("u1", "time", CfgOk(1), DefaultPriority, 0),
      NewReminder("u2", "recurring", CfgOk(1), DefaultPriority, 0)>>
DailyAndUrgent ==
    <<NewReminder("u1", "recurring", CfgOk(1), DefaultPriority, 0),
      NewReminder("u2", "time", CfgOk(2), DefaultPriority + 1, 0)>>
OneShotAndPlace ==
    <<NewReminder("u1", "time", CfgOk(1), DefaultPriority, 0),
      NewReminder("u2", "location", CfgMissing, DefaultPriority, 0)>>

Table(rows) == [id \in RIds |-> rows[id]]

Worlds ==
    { <<Home, Table(OneShotAndDaily)>>, <<Home, Table(DailyAndUrgent)>>,
      <<Home, Table(OneShotAndPlace)>>, <<Bare, Table(OneShotAndDaily)>> }

Idle ==
    /\ delivered = [n \in 1..MaxNotifs |-> 0]
    /\ outbox = [n \in 1..MaxNotifs |-> 0]
    /\ eval = [p \in EvalProcs |-> EvalIdle]
    /\ send = [s \in SendProcs |-> SendIdle]
    /\ agent = << >>
    /\ disp = DispIdle

Init ==
    /\ now = 0
    /\ \E w \in Worlds :
          /\ prefs = w[1].prefs
          /\ contact = w[1].contact
          /\ env = w[1].env
          /\ reminders = w[2]
    /\ notifications = << >>
    /\ published = {}
    /\ Idle

\* the reminder evaluator alone, two invocations that may overlap
EvalNext ==
    \/ Advance
    \/ \E p \in EvalProcs : TickStart(p, BatchLimit)
    \/ \E p \in EvalProcs : TickQueue(p)
    \/ \E p \in EvalProcs : TickUpdate(p)
    \/ \E p \in EvalProcs : TickReturn(p)

SpecEval == Init /\ [][EvalNext]_vars

\* The notification sender alone, two invocations that may overlap. It starts from what
\* the evaluator leaves behind once every reminder with a trigger time has fired outside
\* quiet hours: one pending row each, its hand-off message published or not.
Fired(rs) ==
    LET due == {id \in DOMAIN rs : IsSome(rs[id].next_trigger_at)}
        row(id) == queue_notification(<< >>, rs[id].user_id, Pending(rs, id),
                       get_preferred_channel(PrefsOf(rs[id].user_id)))[1]
    IN  IF due = DOMAIN rs THEN <<row(1), row(2)>>
        ELSE <<row(CHOOSE id \in due : TRUE)>>

SendInit ==
    /\ now = MaxNow
    /\ \E w \in Worlds :
          /\ prefs = w[1].prefs
          /\ contact = w[1].contact
          /\ env = w[1].env
          /\ reminders = w[2]
    /\ notifications = Fired(reminders)
    /\ published \in SUBSET (1..MaxNotifs)   \* a message may name a row that is not there
    /\ Idle

SendNext ==
    \/ \E s \in SendProcs, n \in 1..MaxNotifs : SenderFetch(s, n)
    \/ \E s \in SendProcs : SenderDispatch(s)
    \/ \E s \in SendProcs : SenderReturn(s)

SpecSend == SendInit /\ [][SendNext]_vars

\* The sender while the owner of user_notification_preferences rewrites the rows that
\* get_user_preferences reads: the preferences a notification was created under are no
\* longer the ones in the store.
PreferencesChange ==
    /\ \E w \in {Home, Bare} : prefs' = w.prefs /\ prefs' # prefs
    /\ UNCHANGED <<now, reminders, contact, env, agent, disp, notifications, published,
                   delivered, outbox, eval, send>>

SendPrefsNext == SendNext \/ PreferencesChange

SpecSendPrefs == SendInit /\ [][SendPrefsNext]_vars

\* The same under the scheduling the platform gives: every published message is
\* delivered while deliveries remain, and an invocation that has started runs on to its
\* return.
SendFairness ==
    /\ \A n \in 1..MaxNotifs : WF_vars(\E s \in SendProcs : SenderFetch(s, n))
    /\ \A s \in SendProcs : WF_vars(SenderDispatch(s))
    /\ \A s \in SendProcs : WF_vars(SenderReturn(s))

SpecSendFair == SendInit /\ [][SendNext]_vars /\ SendFairness

\* The eligibility query on its own: any table of three rows, any instant, any LIMIT up
\* to QLimit.
QIds == {1, 2, 3}
QRows ==
    { [NewReminder("u1", "time", CfgOk(at), priority, 0)
          EXCEPT !.status = status, !.snooze_until = snooze] :
        at \in {1, 3}, priority \in {1, DefaultPriority},
        status \in {"active", "paused", "triggered"},
        snooze \in {None, Some(MaxNow)} }
      \cup { NewReminder("u1", "location", CfgMissing, DefaultPriority, 0) }

QueryInit ==
    /\ now \in {2, MaxNow}
    /\ reminders \in [QIds -> QRows]
    /\ prefs = Home.prefs
    /\ contact = Home.contact
    /\ env = Home.env
    /\ notifications = << >>
    /\ published = {}
    /\ Idle

QueryNext == \E limit \in 0..QLimit : TickStart("e1", limit)

SpecQuery == QueryInit /\ [][QueryNext]_vars

\* Two ticks over a store that nothing writes in between: both run the eligibility query
\* on the same snapshot.
SnapshotNext == \E p \in EvalProcs : TickStart(p, BatchLimit)

SpecSnapshot == QueryInit /\ [][SnapshotNext]_vars

\* The briefing dispatcher: the hourly schedule (and whoever else invokes the function)
\* runs it up to MaxRuns times with any briefing_type while the clock moves on. u1 has a
\* preference row, u2 has none.
BriefingWorlds ==
    { [u \in Users |-> IF u = "u1" THEN Some(row) ELSE None] :
        row \in { BriefingPrefRow(TRUE, TRUE, FALSE, TRUE, 1, TRUE, 2, 0),
                  BriefingPrefRow(FALSE, TRUE, TRUE, TRUE, 0, FALSE, 2, 1),
                  BriefingPrefRow(TRUE, FALSE, FALSE, FALSE, 1, TRUE, 1, 0 - 1) } }

BriefingInit ==
    /\ now = 0
    /\ prefs \in BriefingWorlds
    /\ contact = Home.contact
    /\ env = Home.env
    /\ reminders = << >>
    /\ notifications = << >>
    /\ published = {}
    /\ Idle

BriefingNext ==
    \/ Advance
    \/ \E briefing_type \in {None, Some("morning"), Some("evening"), Some("weekly")} :
          DispatchStart(briefing_type)
    \/ DispatchTrigger
    \/ DispatchReturn

SpecBriefing == BriefingInit /\ [][BriefingNext]_vars

\* The tick under its schedule, with more reminders due than one tick takes: the limit is
\* one less than the rows of the table, the urgent reminder of u2 comes first in the
\* order, and u2 has no quiet hours. The schedule keeps invoking the handler, a started
\* invocation runs on to its return, and the clock moves on.
StarveLimit == Cardinality(RIds) - 1

StarveInit ==
    /\ now = 0
    /\ prefs = Home.prefs
    /\ contact = Home.contact
    /\ env = Home.env
    /\ reminders = Table(DailyAndUrgent)
    /\ notifications = << >>
    /\ published = {}
    /\ Idle

StarveNext ==
    \/ Advance
    \/ TickStart("e1", StarveLimit)
    \/ TickQueue("e1")
    \/ TickUpdate("e1")
    \/ TickReturn("e1")

StarveFairness ==
    /\ WF_vars(Advance)
    /\ WF_vars(TickStart("e1", StarveLimit))
    /\ WF_vars(TickQueue("e1"))
    /\ WF_vars(TickUpdate("e1"))
    /\ WF_vars(TickReturn("e1"))

SpecStarve == StarveInit /\ [][StarveNext]_vars /\ StarveFairness

\* The delivery policy on its own: one invocation of the evaluator at any time of day,
\* for a user with any preference row or none (u2 has none), each with a reminder due.
PolicyRows ==
    LET times == {None} \cup {Some(x) : x \in 0..DayLen - 1}
    IN  {PrefRow(push, email, discord, quiet, qstart, qend, 0) :
            push \in BOOLEAN, email \in BOOLEAN, discord \in BOOLEAN,
            quiet \in BOOLEAN, qstart \in times, qend \in times}

PolicyInit ==
    /\ now \in 0..DayLen
    /\ \E row \in {None} \cup {Some(x) : x \in PolicyRows} :
          prefs = [u \in Users |-> IF u = "u1" THEN row ELSE None]
    /\ reminders = Table(<<NewReminder("u1", "time", CfgOk(0), DefaultPriority, 0),
                           NewReminder("u2", "time", CfgOk(0), DefaultPriority, 0)>>)
    /\ contact = Home.contact
    /\ env = Home.env
    /\ notifications = << >>
    /\ published = {}
    /\ Idle

PolicyNext ==
    \/ TickStart("e1", BatchLimit)
    \/ TickQueue("e1")
    \/ TickUpdate("e1")
    \/ TickReturn("e1")

SpecPolicy == PolicyInit /\ [][PolicyNext]_vars

\* The reminders API together with the tick: users create, update, snooze and delete
\* reminders while one evaluator invocation at a time runs and the clock moves on.
ApiCfgs == {CfgMissing, CfgMalformed, CfgOk(1), CfgOk(2)}

ApiInit ==
    /\ now = 0
    /\ reminders = << >>
    /\ prefs = Home.prefs
    /\ contact = Home.contact
    /\ env = Home.env
    /\ notifications = << >>
    /\ published = {}
    /\ Idle

ApiNext ==
    \/ Advance
    \/ \E user \in Users, trigger_type \in {"time", "location", "event", "recurring"},
          cfg \in ApiCfgs :
          CreateReminder(user, trigger_type, cfg, None)
    \/ \E user \in Users, id \in 1..MaxCreated,
          trigger_config \in {None, Some(CfgOk(1))},
          status \in {None} \cup {Some(x) : x \in {"active", "paused", "cancelled",
                                                   "completed"}} :
          UpdateReminder(user, id, trigger_config, None, status)
    \/ \E user \in Users, id \in 1..MaxCreated, until \in {0, MaxNow} :
          SnoozeReminder(user, id, until)
    \/ \E user \in Users, id \in 1..MaxCreated : DeleteReminder(user, id)
    \/ TickStart("e1", BatchLimit)
    \/ TickQueue("e1")
    \/ TickUpdate("e1")
    \/ TickReturn("e1")

SpecApi == ApiInit /\ [][ApiNext]_vars

\* ================================================================== claims
\* Steps of one evaluator invocation p, told apart by what it logs. From pc "queue"
\* or "update" only p's own step changes eval[p].
Current(p) == eval[p].batch[eval[p].i]
QueueStep(p) == eval[p].pc = "queue" /\ eval'[p] # eval[p]
UpdateStep(p) == eval[p].pc = "update" /\ eval'[p] # eval[p]
StartStep(p) == eval[p].pc = "idle" /\ eval'[p] # eval[p]
QuietSkipStep(p) ==
    QueueStep(p) /\ eval'[p].log.msg = "Skipping notification during quiet hours"
QueuedStep(p) ==
    QueueStep(p) /\ eval'[p].log.msg \in {"queued", "Failed to publish to SNS"}
UpdatedStep(p) == UpdateStep(p) /\ eval'[p].log.msg = "updated"

NotificationsOf(id, occurrence) ==
    {n \in 1..Len(notifications) :
        /\ notifications[n].reminder_id = id
        /\ notifications[n].occurrence = occurrence}

\* C1: in every reachable state there is at most one notification row per reminder
\* and occurrence of it that came due.
C1_OnePerOccurrence ==
    \A id \in RIds, t \in 0..MaxNow : Cardinality(NotificationsOf(id, t)) <= 1

\* what the rescheduler leaves behind for the reminder a tick has just fired
Rescheduled(row, t) ==
    IF row.trigger_type = "recurring"
    THEN row.status = "active" /\ IsSome(row.next_trigger_at)
         /\ Get(row.next_trigger_at) > t
    ELSE row.status = "triggered"

\* C2: when the user of a due reminder is in quiet hours, no notification is
\* created and the rescheduler still runs for the reminder in the same tick.
C2_QuietStillAdvances ==
    [][\A p \in EvalProcs :
          QuietSkipStep(p) =>
             /\ notifications' = notifications
             /\ \/ eval'[p].pc = "update" /\ eval'[p].i = eval[p].i
                \/ Rescheduled(reminders'[Current(p).id], now)]_vars

\* the quiet-hours window of preferences p, read on the clock of the user's timezone
InLocalQuietHours(p, t) ==
    /\ p.quiet_hours_enabled
    /\ IsSome(p.quiet_hours_start) /\ IsSome(p.quiet_hours_end)
    /\ LET start == Get(p.quiet_hours_start)
           end == Get(p.quiet_hours_end)
           local == TimeOfDay(t + p.timezone)
       IN  IF start <= end THEN local >= start /\ local < end
           ELSE local >= start \/ local < end

\* C10: quiet hours are read in the user's own timezone: a tick that has loaded the
\* preferences of a reminder whose user's local time-of-day is inside the window
\* suppresses the notification.
C10_QuietInUserZone ==
    [][\A p \in EvalProcs :
          (/\ QueueStep(p)
           /\ eval'[p].log.msg # "Failed to get user preferences"
           /\ InLocalQuietHours(PrefsOf(Current(p).user_id), now))
          => QuietSkipStep(p) /\ notifications' = notifications]_vars

\* the rows a tick at instant t has to act on, as the spec words "due"
IsDue(row, t) ==
    /\ row.status = "active"
    /\ row.next_trigger_at # None
    /\ \E at \in 0..t : row.next_trigger_at = Some(at)
    /\ \A until \in t + 1..MaxNow + DayLen : row.snooze_until # Some(until)

\* row a comes strictly before row b in the order the claim names
StrictlyBefore(a, b) ==
    \/ a.priority > b.priority
    \/ a.priority = b.priority /\ Get(a.next_trigger_at) < Get(b.next_trigger_at)

\* C5: the query returns exactly the reminders with status active, a non-null
\* next_trigger_at <= now and snooze_until null or <= now, each once, sorted by priority
\* descending then next_trigger_at ascending and cut to the first `limit` rows: every
\* row returned is due however long ago it came due, no row that is not due is returned,
\* and a due row is left out only by the cut, behind every row returned.
C5_ExactlyTheDue ==
    LET e == eval["e1"]
        ids == {e.batch[k].id : k \in 1..Len(e.batch)}
        due == {id \in DOMAIN reminders : IsDue(reminders[id], now)}
    IN  (e.pc # "idle" /\ e.result # "error") =>
           /\ ids \subseteq due
           /\ Cardinality(ids) = Len(e.batch)
           /\ Len(e.batch) = Min(e.limit, Cardinality(due))
           /\ \A i, j \in 1..Len(e.batch) :
                 i < j => ~StrictlyBefore(reminders[e.batch[j].id],
                                          reminders[e.batch[i].id])
           /\ \A x \in due \ ids, k \in 1..Len(e.batch) :
                 ~StrictlyBefore(reminders[x], reminders[e.batch[k].id])
           /\ \A k \in 1..Len(e.batch) :
                 LET row == reminders[e.batch[k].id]
                 IN  /\ e.batch[k].user_id = row.user_id
                     /\ e.batch[k].trigger_type = row.trigger_type
                     /\ e.batch[k].priority = row.priority

\* a query with LIMIT 1 has returned the first of two due rows, the lower priority one
\* cut off, and has left out a snoozed row of the same priority that came due earlier
C5_Witness ==
    LET e == eval["e1"]
    IN  /\ e.pc = "queue" /\ e.limit = 1 /\ Len(e.batch) = 1
        /\ \E x, y \in DOMAIN reminders \ {e.batch[1].id} :
              /\ x # y
              /\ IsDue(reminders[x], now)
              /\ reminders[x].priority < e.batch[1].priority
              /\ reminders[y].status = "active"
              /\ reminders[y].snooze_until = Some(MaxNow)
              /\ reminders[y].next_trigger_at = Some(1)
              /\ reminders[y].priority = e.batch[1].priority
              /\ now = 2

\* C6: a tick that fires a non-recurring reminder queues exactly one notification for
\* it, on the channel the preferences resolve to, then sets its status to 'triggered'
\* and stamps last_triggered_at; no tick selects a reminder that is 'triggered', and no
\* step of a tick takes a reminder out of 'triggered'.
C6_OneShotRetired ==
    [][/\ \A p \in EvalProcs :
            (QueuedStep(p) /\ Current(p).trigger_type # "recurring") =>
               /\ Len(notifications') = Len(notifications) + 1
               /\ SubSeq(notifications', 1, Len(notifications)) = notifications
               /\ LET n == notifications'[Len(notifications')]
                  IN  /\ n.reminder_id = Current(p).id
                      /\ n.user_id = Current(p).user_id
                      /\ n.status = "pending"
                      /\ n.channel = get_preferred_channel(PrefsOf(Current(p).user_id))
               /\ eval'[p].notifications_queued = eval[p].notifications_queued + 1
               /\ eval'[p].pc = "update" /\ eval'[p].i = eval[p].i
       /\ \A p \in EvalProcs :
            (UpdatedStep(p) /\ Current(p).trigger_type # "recurring") =>
               /\ reminders'[Current(p).id].status = "triggered"
               /\ reminders'[Current(p).id].last_triggered_at = Some(now)
       /\ \A p \in EvalProcs :
            StartStep(p) =>
               \A k \in 1..Len(eval'[p].batch) :
                  reminders[eval'[p].batch[k].id].status # "triggered"
       /\ \A id \in RIds :
            reminders[id].status = "triggered" => reminders'[id].status = "triggered"
      ]_vars

\* a time reminder has fired: it is 'triggered', stamped, has one notification, and a
\* later tick has started and returned without selecting it
C6_Witness ==
    \E id \in RIds, p \in EvalProcs :
        /\ reminders[id].trigger_type = "time"
        /\ reminders[id].status = "triggered"
        /\ IsSome(reminders[id].last_triggered_at)
        /\ Cardinality({n \in 1..Len(notifications) :
                            notifications[n].reminder_id = id}) = 1
        /\ now > Get(reminders[id].last_triggered_at)
        /\ eval[p].pc = "return" /\ eval[p].result = "ok"
        /\ \A k \in 1..Len(eval[p].batch) : eval[p].batch[k].id # id

\* C7: a tick that fires a recurring reminder leaves its status 'active', stamps
\* last_triggered_at with now and moves next_trigger_at to an instant after now: the
\* same time-of-day a day later when it fires at its time-of-day; no step of a tick
\* changes the status of a recurring reminder.
C7_RecurringStaysActive ==
    [][/\ \A p \in EvalProcs :
            (UpdatedStep(p) /\ Current(p).trigger_type = "recurring") =>
               LET old == reminders[Current(p).id]
                   new == reminders'[Current(p).id]
               IN  /\ new.status = "active"
                   /\ new.last_triggered_at = Some(now)
                   /\ IsSome(new.next_trigger_at)
                   /\ Get(new.next_trigger_at) > now
                   /\ TimeOfDay(Get(new.next_trigger_at)) = old.trigger_config.v
                   /\ Get(new.next_trigger_at) <= now + DayLen
                   /\ (TimeOfDay(now) = old.trigger_config.v
                          => Get(new.next_trigger_at) = now + DayLen)
                   /\ eval'[p].reminders_rescheduled = eval[p].reminders_rescheduled + 1
       /\ \A id \in RIds :
            reminders[id].trigger_type = "recurring" =>
               /\ reminders[id].status = "active"
               /\ reminders'[id].status = "active"
      ]_vars

\* a recurring reminder fired at its time-of-day and now waits for the same
\* time-of-day of the next day
C7_Witness ==
    \E id \in RIds, p \in EvalProcs :
        /\ reminders[id].trigger_type = "recurring"
        /\ eval[p].log = [msg |-> "updated", id |-> id]
        /\ reminders[id].status = "active"
        /\ reminders[id].last_triggered_at = Some(now)
        /\ TimeOfDay(now) = reminders[id].trigger_config.v
        /\ reminders[id].next_trigger_at = Some(now + DayLen)

\* C8: once a tick has queued the notification of a due reminder and updated it, the
\* reminder is not due again before its next occurrence (never, for a one-shot); a tick
\* selects only reminders that are due when it starts and writes only for the reminders
\* it selected, so a tick run again creates no notification for the processed reminder
\* and does not change it: run when nothing is due, it returns at once with an empty
\* batch, no notification added and no reminder changed.
C8_RerunIsIdle ==
    [][/\ \A p \in EvalProcs :
            UpdatedStep(p) =>
               LET row == reminders'[Current(p).id]
               IN  \A t \in now..MaxNow + DayLen :
                      IsDue(row, t) =>
                         /\ row.trigger_type = "recurring"
                         /\ Get(row.next_trigger_at) > now
                         /\ t >= Get(row.next_trigger_at)
       /\ \A id \in RIds :
            reminders'[id] # reminders[id] =>
               \E p \in EvalProcs : UpdatedStep(p) /\ Current(p).id = id
       /\ notifications' # notifications =>
               \E p \in EvalProcs :
                  /\ QueuedStep(p)
                  /\ Len(notifications') = Len(notifications) + 1
                  /\ notifications'[Len(notifications')].reminder_id = Current(p).id
       /\ \A p \in EvalProcs :
            StartStep(p) =>
               /\ notifications' = notifications /\ reminders' = reminders
               /\ \A k \in 1..Len(eval'[p].batch) :
                     IsDue(reminders[eval'[p].batch[k].id], now)
               /\ (\A id \in RIds : ~IsDue(reminders[id], now)) =>
                     /\ eval'[p].pc = "return"
                     /\ eval'[p].batch = << >>
       /\ \A p \in EvalProcs :
            (eval[p].pc = "return" /\ eval'[p] # eval[p]) =>
               /\ notifications' = notifications /\ reminders' = reminders
               /\ eval'[p].pc = "idle"
      ]_vars

\* every reminder with a trigger time has been processed in full, nothing is due, and a
\* tick run again has returned with an empty batch: one notification per reminder
C8_Witness ==
    \E p \in EvalProcs :
        /\ eval[p].pc = "return" /\ eval[p].result = "ok" /\ eval[p].batch = << >>
        /\ \A q \in EvalProcs \ {p} : eval[q].pc = "idle"
        /\ \A id \in RIds : ~IsDue(reminders[id], now)
        /\ \E id \in RIds :
              /\ IsSome(reminders[id].last_triggered_at)
              /\ Cardinality({n \in 1..Len(notifications) :
                                  notifications[n].reminder_id = id}) = 1

\* C3: for every notification the external channel sender is invoked at most once,
\* over all deliveries of the hand-off messages that name it.
C3_SentAtMostOnce ==
    \A n \in 1..MaxNotifs : outbox[n] <= 1

\* C4: no step changes the status of a notification that is already sent or failed.
C4_FinalizedOnce ==
    [][\A n \in 1..Len(notifications) :
          notifications[n].status # "pending" =>
             notifications'[n].status = notifications[n].status]_vars

\* C9: a notification dispatched through the stub push sender is never recorded as
\* 'sent', and the invocation that dispatched it does not count it as sent.
C9_PushStubNotSent ==
    \A n \in 1..Len(notifications) :
        (notifications[n].channel = "push" /\ outbox[n] > 0) =>
           /\ notifications[n].status # "sent"
           /\ \A s \in SendProcs :
                 (send[s].pc = "return" /\ send[s].nid = n) =>
                    send[s].notifications_sent = 0

\* the quiet-hours window as the claim words it, for time-of-day tod
InWindow(p, tod) ==
    /\ p.quiet_hours_enabled = TRUE
    /\ \E start, end \in 0..DayLen - 1 :
          /\ p.quiet_hours_start = Some(start)
          /\ p.quiet_hours_end = Some(end)
          /\ \/ start <= end /\ start <= tod /\ tod < end
             \/ start > end /\ (tod >= start \/ tod < end)

\* the tick has loaded the preference row of the user of the reminder at hand
LoadedPrefsStep(p) ==
    /\ QueueStep(p)
    /\ eval'[p].log.msg # "Failed to get user preferences"

\* C11: the tick takes the quiet-hours branch for a user's preference row exactly when
\* quiet hours are enabled, start and end are both set, and the time-of-day lies in
\* [start, end), or in [start, midnight) or [midnight, end) when start > end; never
\* when quiet hours are disabled, a bound is missing, or start = end.
C11_QuietWindow ==
    [][\A p \in EvalProcs :
          (LoadedPrefsStep(p) /\ IsSome(prefs[Current(p).user_id])) =>
             LET row == Get(prefs[Current(p).user_id])
             IN  /\ QuietSkipStep(p) <=> InWindow(row, TimeOfDay(now))
                 /\ ~row.quiet_hours_enabled => ~QuietSkipStep(p)
                 /\ (row.quiet_hours_start = None \/ row.quiet_hours_end = None)
                       => ~QuietSkipStep(p)
                 /\ row.quiet_hours_start = row.quiet_hours_end => ~QuietSkipStep(p)
      ]_vars

\* a reminder was skipped inside an overnight window, before its end
C11_Witness ==
    \E p \in EvalProcs :
        /\ eval[p].log.msg = "Skipping notification during quiet hours"
        /\ eval[p].log.id = 1
        /\ IsSome(prefs["u1"])
        /\ Get(prefs["u1"]).quiet_hours_start = Some(DayLen - 1)
        /\ Get(prefs["u1"]).quiet_hours_end = Some(1)
        /\ TimeOfDay(now) = 0

\* the channels in the order the claim names, and the first of them row p enables
ChannelOrder == <<"discord", "push", "email">>
Enables(p, channel) ==
    \/ channel = "discord" /\ p.discord_enabled
    \/ channel = "push" /\ p.push_enabled
    \/ channel = "email" /\ p.email_enabled

\* C12: outside quiet hours the notification of a user with a preference row that
\* enables some channel is queued on the first enabled channel in the order discord,
\* push, email.
C12_FirstEnabledChannel ==
    [][\A p \in EvalProcs :
          (QueuedStep(p) /\ IsSome(prefs[Current(p).user_id])) =>
             LET row == Get(prefs[Current(p).user_id])
                 channel == notifications'[Len(notifications')].channel
             IN  \A k \in 1..Len(ChannelOrder) :
                    (/\ Enables(row, ChannelOrder[k])
                     /\ \A j \in 1..k - 1 : ~Enables(row, ChannelOrder[j]))
                    => channel = ChannelOrder[k]
      ]_vars

\* discord disabled, push and email enabled: the notification is on push
C12_Witness ==
    /\ IsSome(prefs["u1"])
    /\ ~Get(prefs["u1"]).discord_enabled
    /\ Get(prefs["u1"]).push_enabled /\ Get(prefs["u1"]).email_enabled
    /\ \E n \in 1..Len(notifications) :
          notifications[n].user_id = "u1" /\ notifications[n].channel = "push"

\* C13: for a user with no preference row the tick counts no error and takes no
\* quiet-hours branch, and queues the notification on the channel that preferences
\* with every channel (discord, push, email) enabled resolve to.
C13_AllChannelsDefault ==
    [][\A p \in EvalProcs :
          (LoadedPrefsStep(p) /\ prefs[Current(p).user_id] = None) =>
             /\ ~QuietSkipStep(p)
             /\ QueuedStep(p) =>
                   /\ eval'[p].errors = eval[p].errors
                   /\ notifications'[Len(notifications')].channel = "discord"
      ]_vars

\* C13, amended: for a user with no preference row the tick counts no error and takes
\* no quiet-hours branch whatever the time of day, and queues the notification on push.
C13_DefaultsResolveToPush ==
    [][\A p \in EvalProcs :
          (LoadedPrefsStep(p) /\ prefs[Current(p).user_id] = None) =>
             /\ ~QuietSkipStep(p)
             /\ eval'[p].log.msg \in {"queued", "Failed to publish to SNS",
                                       "Failed to queue notification"}
             /\ QueuedStep(p) =>
                   /\ eval'[p].errors = eval[p].errors
                   /\ Len(notifications') = Len(notifications) + 1
                   /\ notifications'[Len(notifications')].channel = "push"
                   /\ notifications'[Len(notifications')].user_id = Current(p).user_id
      ]_vars

\* the reminder of the user without a preference row has its notification on push, and
\* the tick has returned without an error
C13_Witness ==
    /\ prefs["u2"] = None
    /\ eval["e1"].pc = "return" /\ eval["e1"].errors = 0
    /\ \E n \in 1..Len(notifications) :
          notifications[n].user_id = "u2" /\ notifications[n].channel = "push"

\* steps of one sender invocation s
FetchStep(s) == send[s].pc = "idle" /\ send'[s] # send[s]
DispatchStep(s) == send[s].pc = "fetched" /\ send'[s] # send[s]

\* C14: whenever the dispatch of a fetched pending notification fails, the row becomes
\* 'failed' with the cause in delivery_info and the handler goes on to return; when the
\* contact for the channel is missing, no external sender is called.
C14_FailureIsRecorded ==
    [][\A s \in SendProcs :
          (DispatchStep(s) /\ send'[s].log = "Failed to send notification") =>
             LET n == send[s].nid
                 c == Get(contact[send[s].user_id])
             IN  /\ notifications'[n].status = "failed"
                 /\ IsSome(notifications'[n].delivery_info)
                 /\ send'[s].pc = "return"
                 /\ send'[s].errors = 1 /\ send'[s].notifications_sent = 0
                 /\ (\/ send[s].channel = "email" /\ ~c.email
                     \/ send[s].channel = "discord" /\ ~c.discord_user_id
                     \/ send[s].channel = "push" /\ ~c.push_token)
                       => outbox' = outbox
      ]_vars

\* C15: a hand-off message whose notification does not exist or is already sent or
\* failed makes the sender do nothing: no external send, every row unchanged, no error
\* counted, and the invocation goes straight to its return.
C15_FinalizedIsSkipped ==
    [][\A s \in SendProcs :
          /\ (/\ FetchStep(s)
              /\ send'[s].log # "Failed to fetch notification"
              /\ \/ send'[s].nid > Len(notifications)
                 \/ notifications[send'[s].nid].status \in {"sent", "failed"})
             => /\ send'[s].pc = "return"
                /\ send'[s].log = "Notification not found or already sent"
                /\ send'[s].errors = 0 /\ send'[s].notifications_sent = 0
                /\ notifications' = notifications
                /\ outbox' = outbox
          /\ (send[s].pc = "return" /\ send'[s] # send[s])
             => /\ send'[s].pc = "idle"
                /\ notifications' = notifications
                /\ outbox' = outbox
      ]_vars

\* one invocation has skipped the message of a notification that had failed after one
\* external send, the other that of a notification that does not exist
C15_Witness ==
    \E s, r \in SendProcs :
        /\ send[s].pc = "return" /\ send[r].pc = "return"
        /\ send[s].log = "Notification not found or already sent"
        /\ send[r].log = "Notification not found or already sent"
        /\ send[s].nid <= Len(notifications)
        /\ notifications[send[s].nid].status = "failed"
        /\ outbox[send[s].nid] = 1
        /\ send[r].nid > Len(notifications)

\* C16: every notification that is pending is eventually sent or failed.
C16_EventuallyFinalized ==
    \A n \in 1..MaxNotifs :
        (n <= Len(notifications) /\ notifications[n].status = "pending")
           ~> (n <= Len(notifications) /\ notifications[n].status # "pending")

\* C17: when the publish fails after the notification row was inserted, the row stays
\* in the table as pending, notifications_queued counts it, errors does not, and the
\* tick goes on to update_reminder_status for the same reminder, which advances it
\* (nothing but a failure of that UPDATE itself leaves the reminder as it was).
C17_PublishFailureKeepsRow ==
    [][/\ \A p \in EvalProcs :
            (QueueStep(p) /\ eval'[p].log.msg = "Failed to publish to SNS") =>
               /\ Len(notifications') = Len(notifications) + 1
               /\ SubSeq(notifications', 1, Len(notifications)) = notifications
               /\ notifications'[Len(notifications')].status = "pending"
               /\ notifications'[Len(notifications')].reminder_id = Current(p).id
               /\ published' = published
               /\ eval'[p].notifications_queued = eval[p].notifications_queued + 1
               /\ eval'[p].errors = eval[p].errors
               /\ eval'[p].pc = "update"
               /\ eval'[p].i = eval[p].i /\ eval'[p].batch = eval[p].batch
       /\ \A p \in EvalProcs :
            (UpdateStep(p) /\ eval[p].log.msg = "Failed to publish to SNS") =>
               LET id == Current(p).id
               IN  \/ /\ eval'[p].log = [msg |-> "updated", id |-> id]
                      /\ eval'[p].errors = eval[p].errors
                      /\ reminders'[id].last_triggered_at = Some(now)
                      /\ ~IsDue(reminders'[id], now)
                   \/ /\ eval'[p].log = [msg |-> "Failed to update reminder status",
                                         id |-> id]
                      /\ reminders' = reminders
       /\ \A n \in 1..Len(notifications) :
            /\ Len(notifications') >= Len(notifications)
            /\ notifications'[n].reminder_id = notifications[n].reminder_id
      ]_vars

\* a tick has returned without errors after a publish failed: the row is pending and
\* unpublished, counted as queued, and its reminder has been advanced
C17_Witness ==
    \E p \in EvalProcs, n \in 1..Len(notifications) :
        /\ eval[p].pc = "return" /\ eval[p].errors = 0
        /\ eval[p].notifications_queued = 1
        /\ eval[p].log = [msg |-> "updated", id |-> notifications[n].reminder_id]
        /\ Len(notifications) = 1
        /\ n \notin published
        /\ notifications[n].status = "pending"
        /\ reminders[notifications[n].reminder_id].last_triggered_at = Some(now)

\* a step of the create handler, and the row it stored
CreateStep == Len(reminders') = Len(reminders) + 1
Created == reminders'[Len(reminders')]

\* C18: for a recurring trigger the trigger calculator always gives the create handler
\* an instant, and that instant is the next occurrence of the daily time-of-day
\* strictly after now.
C18_RecurringNextOccurrence ==
    [][(CreateStep /\ Created.trigger_type = "recurring") =>
          /\ Created.next_trigger_at # None
          /\ \E at \in now + 1..now + DayLen : Created.next_trigger_at = Some(at)
      ]_vars

\* the time field of a trigger_config is missing or does not parse
Unreadable(cfg) == cfg.kind \in {"missing", "malformed"}

\* C19: for every trigger type a trigger_config whose time field is missing or
\* malformed is stored with a null next_trigger_at.
C19_UnreadableGivesNone ==
    [][(CreateStep /\ Unreadable(Created.trigger_config)) =>
          Created.next_trigger_at = None]_vars

\* C19, amended: a time or event trigger whose time field is missing or malformed, a
\* recurring trigger whose time field is malformed and every location trigger are
\* stored with a null next_trigger_at, while a recurring trigger with no time field
\* takes the default time of day; a reminder with a null next_trigger_at is selected
\* by no tick and no operation gives it a next_trigger_at, a corrected trigger_config
\* included.
C19_NoneIsNeverSelected ==
    [][/\ CreateStep =>
            /\ Created.status = "active"
            /\ (/\ Created.trigger_type \in {"time", "event"}
                /\ Unreadable(Created.trigger_config))
               => Created.next_trigger_at = None
            /\ (/\ Created.trigger_type = "recurring"
                /\ Created.trigger_config.kind = "malformed")
               => Created.next_trigger_at = None
            /\ Created.trigger_type = "location" => Created.next_trigger_at = None
            /\ (/\ Created.trigger_type = "recurring"
                /\ Created.trigger_config.kind = "missing")
               => /\ Created.next_trigger_at # None
                  /\ TimeOfDay(Get(Created.next_trigger_at)) = DefaultTime
                  /\ Get(Created.next_trigger_at) \div DayLen = now \div DayLen
       /\ \A id \in DOMAIN reminders :
            reminders[id].next_trigger_at = None =>
               /\ reminders'[id].next_trigger_at = None
               /\ \A p \in EvalProcs :
                     StartStep(p) =>
                        \A k \in 1..Len(eval'[p].batch) : eval'[p].batch[k].id # id
      ]_vars

\* a time reminder with a malformed time field is stored active with no trigger time,
\* its configuration has since been corrected, and a tick run long after has returned
\* with nothing selected
C19_Witness ==
    /\ Len(reminders) = 1
    /\ reminders[1].trigger_type = "time"
    /\ reminders[1].trigger_config = CfgOk(1)
    /\ reminders[1].status = "active"
    /\ reminders[1].next_trigger_at = None
    /\ now = MaxNow
    /\ eval["e1"].pc = "return" /\ eval["e1"].result = "ok"
    /\ eval["e1"].batch = << >>

\* C20: a reminder that is cancelled or completed, or triggered and not recurring, is
\* never made active again by any operation, so it is never due again.
C20_TerminalIsAbsorbing ==
    [][\A id \in DOMAIN reminders :
          (\/ reminders[id].status \in {"cancelled", "completed"}
           \/ /\ reminders[id].status = "triggered"
              /\ reminders[id].trigger_type # "recurring")
          => reminders'[id].status # "active"]_vars

\* messages of the per-reminder failures of a tick
QueueFailures == {"Failed to get user preferences", "Failed to queue notification"}
FailureStep(p) ==
    \/ QueueStep(p) /\ eval'[p].log.msg \in QueueFailures
    \/ UpdateStep(p) /\ eval'[p].log.msg = "Failed to update reminder status"

\* C21: a failure while processing one due reminder (preference load, notification
\* insert or reminder update) does not end the tick: the tick goes on with the next
\* reminder of its batch, whatever its user, and returns only once every reminder of
\* the batch has had its turn.
C21_FailureDoesNotStopBatch ==
    [][\A p \in EvalProcs :
          /\ FailureStep(p) =>
                /\ eval'[p].batch = eval[p].batch
                /\ eval'[p].errors = eval[p].errors + 1
                /\ IF eval[p].i < Len(eval[p].batch)
                   THEN eval'[p].pc = "queue" /\ eval'[p].i = eval[p].i + 1
                   ELSE eval'[p].pc = "return" /\ eval'[p].result = "ok"
          /\ (eval[p].pc \in {"queue", "update"} /\ eval'[p].pc = "return") =>
                /\ eval[p].i = Len(eval[p].batch)
                /\ eval'[p].result = "ok"
          /\ (eval[p].pc \in {"queue", "update"} /\ eval'[p] # eval[p]) =>
                /\ eval'[p].i \in {eval[p].i, eval[p].i + 1}
                /\ eval'[p].pc = "queue" => eval'[p].i = eval[p].i + 1
      ]_vars

\* the first reminder of a batch of two failed, and the second, of another user, was
\* queued and updated in the same tick
C21_Witness ==
    \E p \in EvalProcs :
        /\ eval[p].pc = "return" /\ eval[p].result = "ok"
        /\ Len(eval[p].batch) = 2
        /\ eval[p].batch[1].user_id # eval[p].batch[2].user_id
        /\ eval[p].errors = 1 /\ eval[p].notifications_queued = 1
        /\ eval[p].log = [msg |-> "updated", id |-> eval[p].batch[2].id]
        /\ \A n \in 1..Len(notifications) :
              notifications[n].reminder_id = eval[p].batch[2].id

\* C22: the tick always ends with Ok and its counts, whichever store operation failed.
C22_AlwaysReturnsCounts ==
    \A p \in EvalProcs : eval[p].pc = "return" => eval[p].result = "ok"

\* C23: when the preference load or the notification insert fails for a due reminder,
\* the tick writes nothing for it: no reminder row and no notification row changes and
\* nothing is published, and the tick moves on without running update_reminder_status
\* for it; a tick that starts while the reminder is due selects it again.
C23_FailedItemUntouched ==
    [][/\ \A p \in EvalProcs :
            (QueueStep(p) /\ eval'[p].log.msg \in QueueFailures) =>
               /\ reminders' = reminders
               /\ notifications' = notifications
               /\ published' = published
               /\ eval'[p].pc # "update"
               /\ eval'[p].notifications_queued = eval[p].notifications_queued
               /\ IsDue(reminders[Current(p).id], now)
                     => IsDue(reminders'[Current(p).id], now)
       /\ \A p \in EvalProcs :
            (StartStep(p) /\ eval'[p].result # "error") =>
               \A id \in DOMAIN reminders :
                  IsDue(reminders[id], now) =>
                     \E k \in 1..Len(eval'[p].batch) : eval'[p].batch[k].id = id
      ]_vars

\* one tick has failed to queue the notification of a reminder and written nothing;
\* the reminder was still due, and another tick has queued its one notification
C23_Witness ==
    \E p, q \in EvalProcs, id \in RIds :
        /\ p # q
        /\ eval[p].pc = "return"
        /\ eval[p].log = [msg |-> "Failed to queue notification", id |-> id]
        /\ eval[q].pc = "update"
        /\ eval[q].log = [msg |-> "queued", id |-> id]
        /\ reminders[id].last_triggered_at = None
        /\ IsDue(reminders[id], now)
        /\ Cardinality({n \in 1..Len(notifications) :
                            notifications[n].reminder_id = id}) = 1

\* reminder id is in the batch of invocation p after the step
Selected(p, id) == \E k \in 1..Len(eval'[p].batch) : eval'[p].batch[k].id = id
SnoozedUntil(row) == IF IsSome(row.snooze_until) THEN Get(row.snooze_until) ELSE 0

C25_LocationNeverFires ==
    \A id \in DOMAIN reminders :
        reminders[id].trigger_type = "location" =>
            /\ reminders[id].next_trigger_at = None
            /\ \A t \in 0..MaxNow : ~IsDue(reminders[id], t)
            /\ \A k \in 1..Len(eval["e1"].batch) : eval["e1"].batch[k].id # id
            /\ \A n \in 1..Len(notifications) : notifications[n].reminder_id # id

\* a location reminder that was updated and snoozed (the snooze is over) is active at
\* MaxNow, and a tick has just come back without it
C25_Witness ==
    \E id \in DOMAIN reminders :
        /\ reminders[id].trigger_type = "location"
        /\ reminders[id].trigger_config = CfgOk(1)
        /\ reminders[id].snooze_until = Some(0)
        /\ reminders[id].status = "active"
        /\ now = MaxNow
        /\ eval["e1"].pc = "return" /\ eval["e1"].result = "ok"
        /\ eval["e1"].batch = << >>

\* C26: two ticks that read the same store snapshot get the due reminders in the same
\* order, also when several of them have equal priority and equal next_trigger_at.
C26_SameSnapshotSameOrder ==
    (\A p \in EvalProcs : eval[p].pc # "idle" /\ eval[p].result # "error")
        => eval["e1"].batch = eval["e2"].batch

\* the channel whose sender writes delivery_info `info`
InfoChannel(info) ==
    CASE info \in {"ses_message_id", "Failed to send email", "User has no email address"}
            -> "email"
      [] info \in {"discord_sent", "Discord webhook failed", "User has no Discord ID",
                   "Discord webhook URL not configured"} -> "discord"
      [] info \in {"push_pending", "User has no push token"} -> "push"
      [] OTHER -> "none"

\* C27: no step changes the channel of a notification row; the sender's status update
\* writes status, sent_at and delivery_info only; the sender dispatches on the channel
\* stored in the row, whatever the user's preferences have become since.
C27_ChannelIsFixed ==
    [][/\ Len(notifications') = Len(notifications)
       /\ \A n \in 1..Len(notifications) :
            /\ notifications'[n].channel = notifications[n].channel
            /\ notifications'[n] =
                  [notifications[n] EXCEPT !.status = notifications'[n].status,
                                           !.sent_at = notifications'[n].sent_at,
                                           !.delivery_info = notifications'[n].delivery_info]
       /\ \A s \in SendProcs :
            (FetchStep(s) /\ send'[s].pc = "fetched") =>
               send'[s].channel = notifications[send'[s].nid].channel
       /\ \A s \in SendProcs :
            (DispatchStep(s) /\ notifications' # notifications) =>
               LET n == send[s].nid
                   info == Get(notifications'[n].delivery_info)
               IN  /\ send[s].channel = notifications[n].channel
                   /\ info # "User not found" => InfoChannel(info) = notifications[n].channel
      ]_vars

\* a notification queued on discord has been sent by the discord sender although the
\* user's preferences now resolve to email
C27_Witness ==
    \E n \in 1..Len(notifications) :
        /\ notifications[n].channel = "discord"
        /\ notifications[n].status = "sent"
        /\ notifications[n].delivery_info = Some("discord_sent")
        /\ get_preferred_channel(PrefsOf(notifications[n].user_id)) = "email"

\* C28: however often the briefing dispatcher runs for one briefing type within one
\* hour, the agent is invoked at most once per user for that type and hour.
C28_OncePerUserAndHour ==
    \A i, j \in 1..Len(agent) :
        ( /\ agent[i].user_id = agent[j].user_id
          /\ agent[i].briefing_type = agent[j].briefing_type
          /\ agent[i].at = agent[j].at ) => i = j

\* reminder id is in the batch of the running invocation
InBatch(id) == \E k \in 1..Len(eval["e1"].batch) : eval["e1"].batch[k].id = id

\* C29: under repeated ticks no reminder stays due for ever without being taken by some
\* tick, also when more reminders are due than the limit and the ones ahead of it in
\* the order are not advanced.
C29_NoStarvation ==
    \A id \in RIds : []<>(~IsDue(reminders[id], now) \/ InBatch(id))

\* preferences p enable no channel at all
NoChannelEnabled(p) == ~p.discord_enabled /\ ~p.push_enabled /\ ~p.email_enabled

\* C30: a due reminder that the tick processes outside the quiet-hours window and
\* without a store error gets exactly one new notification row, pending, for that
\* reminder and user, on one of discord, push, email; with every channel disabled the
\* row is on push.
C30_AlwaysSomeChannel ==
    [][\A p \in EvalProcs :
          ( /\ QueueStep(p)
            /\ eval'[p].log.msg \notin QueueFailures
            /\ ~InWindow(PrefsOf(Current(p).user_id), TimeOfDay(now)) ) =>
             LET row == notifications'[Len(notifications')]
             IN  /\ Len(notifications') = Len(notifications) + 1
                 /\ SubSeq(notifications', 1, Len(notifications)) = notifications
                 /\ row.reminder_id = Current(p).id
                 /\ row.user_id = Current(p).user_id
                 /\ row.status = "pending"
                 /\ row.channel \in {"discord", "push", "email"}
                 /\ NoChannelEnabled(PrefsOf(Current(p).user_id)) => row.channel = "push"
                 /\ eval'[p].notifications_queued = eval[p].notifications_queued + 1
      ]_vars

\* u1 has a preference row with every channel disabled, and the tick has queued the one
\* notification of u1's reminder on push
C30_Witness ==
    /\ IsSome(prefs["u1"])
    /\ NoChannelEnabled(Get(prefs["u1"]))
    /\ \E n \in 1..Len(notifications) :
          /\ notifications[n].user_id = "u1"
          /\ notifications[n].channel = "push"
          /\ notifications[n].status = "pending"
    /\ Cardinality({n \in 1..Len(notifications) : notifications[n].user_id = "u1"}) = 1
    /\ eval["e1"].pc = "return"

====
